---- MODULE Spec2Model ----
(***************************************************************************)
(* Model of EnhancedZeptoScraper (src/zepto_scraper_enhanced.py): the      *)
(* retry loop of _make_request, the category resolution and the page loop  *)
(* of get_all_products_in_category.                                        *)
(*                                                                         *)
(* The remote service is the environment: every transport call is answered *)
(* by an outcome the service chooses (HTTP 200 with a JSON object, HTTP    *)
(* 200 with an undecodable body, HTTP 429, another status, or a transport  *)
(* exception).  JSON bodies are JSON objects, as the endpoints of the      *)
(* service return them.                                                    *)
(***************************************************************************)
EXTENDS Integers, Sequences, FiniteSets, TLC

VARIABLES
    max_retries,        \* self.max_retries                 (line 30)
    max_pages,          \* config DEFAULT.max_pages         (line 149)
    products_per_page,  \* config DEFAULT.products_per_page (lines 119, 165)
    category_name,      \* argument of get_all_products_in_category
    svc_categories,     \* the category listing the remote service holds
    pc,                 \* control location of the scrape
    req_kind,           \* which endpoint the running _make_request addresses
    attempt,            \* loop variable of _make_request   (line 72)
    req_log,            \* trace of the running request: calls, sleeps, delays
    result,             \* value _make_request returned     (lines 81, 94)
    category_id,        \* local of get_all_products_in_category (line 134)
    all_products,       \* accumulator                      (line 147)
    page,               \* page counter                     (line 148)
    requested,          \* history: page numbers passed to get_products_by_category
    fetched,            \* history: the list each get_products_by_category returned
    beyond,             \* TRUE once the loop has left the pages the model tracks
    returned,           \* return value of get_all_products_in_category
    download_images,    \* self.download_images             (line 39)
    norm_raw,           \* argument of extract_product_details: one raw record
    norm_out,           \* the details dict extract_product_details builds
    norm_exc,           \* the exception extract_product_details raised, if any
    norm_img,           \* what the image download of the record met
    an_products,        \* argument of analyze_products / print_analysis
    an_report,          \* the analysis dict analyze_products returned
    run_categories,     \* the category list of scrape_multiple_categories
    run_idx,            \* entries of the list the for loop has taken
    results,            \* the dict the run fills, category name -> products
    scrapes,            \* history: what each scrape_category call returned
    saved,              \* history: the files _save_products wrote
    run_result,         \* what scrape_multiple_categories returned
    calls_made,         \* history: transport calls of the scrape so far
    track_calls,        \* whether the history calls_made is being kept
    attach_mode,        \* FridaScraper.run: attach to the running app, or spawn
    duration,           \* FridaScraper.run: seconds of capture
    stages_run,         \* history: the stages run has called, with their value
    captured_data,      \* FridaScraper.captured_data
    files_written,      \* history: the files the Frida run wrote
    run_value           \* what FridaScraper.run returned

vars == << max_retries, max_pages, products_per_page, category_name,
           svc_categories, pc, req_kind, attempt, req_log, result,
           category_id, all_products, page, requested, fetched, beyond,
           returned, download_images, norm_raw, norm_out, norm_exc, norm_img,
           an_products, an_report, run_categories, run_idx, results, scrapes,
           saved, run_result, calls_made, track_calls, attach_mode, duration,
           stages_run, captured_data, files_written, run_value >>

\* the variables of the normalizer
norm_vars == << download_images, norm_raw, norm_out, norm_exc, norm_img >>

\* what the request layer and the page loop never touch
run_vars == << run_categories, run_idx, results, scrapes, saved, run_result >>

frida_vars ==
    << attach_mode, duration, stages_run, captured_data, files_written,
       run_value >>

stage_vars == << norm_vars, an_products, an_report, run_vars, frida_vars >>

config_vars == << max_retries, max_pages, products_per_page, category_name,
                  svc_categories, track_calls >>

----------------------------------------------------------------------------
(* Bounds of the model *)

MaxRetries == 3
MaxPagesCfg == 2
MaxPageSize == 2
MaxNameLen == 2

\* Pages 1..MaxPageNo are tracked exactly; max_pages never exceeds MaxPagesCfg.
MaxPageNo == MaxPagesCfg + 1

----------------------------------------------------------------------------
(* Values *)

\* Python's None for category_id; identifiers of the service are 0, 1, 2, ...
NoneId == -1
CategoryIds == {0, 1, 2}

Chars == {"f", "F", "d"}

LowerChar(c) == IF c = "F" THEN "f" ELSE c

\* str.lower()
Lower(s) == [i \in 1..Len(s) |-> LowerChar(s[i])]

\* Python's `a in b` on strings
IsSubstring(a, b) ==
    \E i \in 0..(Len(b) - Len(a)) : SubSeq(b, i + 1, i + Len(a)) = a

StringsUpTo(n) == UNION {[1..k -> Chars] : k \in 0..n}

\* A JSON object body, with the keys it has and the two lists the code reads.
Payload(keys, cats, prods) ==
    [none |-> FALSE, keys |-> keys, categories |-> cats, products |-> prods]

\* Python's None as the value of _make_request
None ==
    [none |-> TRUE, keys |-> {}, categories |-> <<>>, products |-> <<>>]

\* The i-th raw record of page p, as the service serves it.
Record(p, i) == [pg |-> p, ix |-> i]

PageOf(p, n) == [i \in 1..n |-> Record(p, i)]

\* Bodies the category endpoint may answer with: the listing, an object
\* without a categories key, the empty object.
CategoryBodies ==
    { Payload({"categories"}, svc_categories, <<>>),
      Payload({"status"}, <<>>, <<>>),
      Payload({}, <<>>, <<>>) }

\* Bodies the product endpoint may answer page p with: a products list of any
\* length 0..MaxPageSize, an object without a products key, the empty object.
ProductBodies(p) ==
    { Payload({"products"}, <<>>, PageOf(p, n)) : n \in 0..MaxPageSize }
    \cup { Payload({"status"}, <<>>, <<>>), Payload({}, <<>>, <<>>) }

Bodies == IF req_kind = "categories" THEN CategoryBodies ELSE ProductBodies(page)

\* Exceptions a transport call or the decoding of its body can raise.
TransportExceptions == {"Timeout", "ConnectionError"}
DecodeException == "DecodeError"

Event(ev, n, out, body) == [ev |-> ev, n |-> n, out |-> out, body |-> body]
CallEv(a, out, body) == Event("call", a, out, body)
SleepEv(t) == Event("sleep", t, "-", None)
DelayEv == Event("delay", 0, "-", None)

RECURSIVE Pow2(_)
Pow2(n) == IF n <= 0 THEN 1 ELSE 2 * Pow2(n - 1)

RECURSIVE Flatten(_)
Flatten(ss) == IF ss = <<>> THEN <<>> ELSE Head(ss) \o Flatten(Tail(ss))

----------------------------------------------------------------------------
(* _make_request, lines 71-94 *)

\* mutant: 2 * attempt written for 2 ** attempt
BackoffWait_Product(a) == 2 * a

\* wait_time = 2 ** attempt (line 83), time.sleep(2 ** attempt) (line 92)
BackoffWait(a) == Pow2(a)

\* if attempt < self.max_retries - 1 (line 91)
AttemptsRemain(a) == a < max_retries - 1

\* mutant: range(max_retries + 1) written for range(max_retries)
LoopRuns_Inclusive(a) == a <= max_retries

\* for attempt in range(self.max_retries) (line 72): the loop body runs
LoopRuns(a) == a < max_retries

\* mutant: only the transport's exceptions are caught, not the decoder's
CatchesException_TransportOnly(e) == e \in TransportExceptions

\* except Exception as e (line 89): every exception of a call is caught
CatchesException(e) == e \in TransportExceptions \cup {DecodeException}

\* return response.json() (line 81)
SuccessValue(body) == body

\* where the caller of _make_request continues (lines 103, 122)
ReturnTo == IF req_kind = "categories" THEN "resolve" ELSE "page_ret"

\* one more call of session.get / session.post (lines 74-77), counted when
\* the history is kept, for the pages tracked exactly
Counted == IF track_calls /\ ~beyond THEN calls_made + 1 ELSE calls_made

\* status 200 with a decodable body: sleep(rate_limit_delay), return the body
AttemptOk ==
    /\ pc = "request"
    /\ LoopRuns(attempt)
    /\ \E body \in Bodies :
          /\ req_log' = req_log \o << CallEv(attempt, "200", body), DelayEv >>
          /\ result' = SuccessValue(body)
    /\ pc' = ReturnTo
    /\ calls_made' = Counted
    /\ UNCHANGED << config_vars, stage_vars, req_kind, attempt, category_id, all_products,
                    page, requested, fetched, beyond, returned >>

\* status 429: warn, sleep(2 ** attempt), next iteration (lines 82-85)
Attempt429 ==
    /\ pc = "request"
    /\ LoopRuns(attempt)
    /\ req_log' = req_log \o << CallEv(attempt, "429", None),
                                SleepEv(BackoffWait(attempt)) >>
    /\ attempt' = attempt + 1
    /\ calls_made' = Counted
    /\ UNCHANGED << config_vars, stage_vars, pc, req_kind, result, category_id,
                    all_products, page, requested, fetched, beyond, returned >>

\* any other status: log an error, next iteration (lines 86-87)
AttemptOtherStatus ==
    /\ pc = "request"
    /\ LoopRuns(attempt)
    /\ req_log' = req_log \o << CallEv(attempt, "other", None) >>
    /\ attempt' = attempt + 1
    /\ calls_made' = Counted
    /\ UNCHANGED << config_vars, stage_vars, pc, req_kind, result, category_id,
                    all_products, page, requested, fetched, beyond, returned >>

\* the except clause (lines 89-92), entered with the trace `log` so far
HandleException(e, log) ==
    IF CatchesException(e)
    THEN /\ req_log' = log \o (IF AttemptsRemain(attempt)
                                THEN << SleepEv(BackoffWait(attempt)) >>
                                ELSE << >>)
         /\ attempt' = attempt + 1
         /\ UNCHANGED << pc, result >>
    ELSE /\ req_log' = log
         /\ pc' = "raised"
         /\ UNCHANGED << attempt, result >>

\* session.get / session.post raises (timeout, connection failure)
AttemptException ==
    /\ pc = "request"
    /\ LoopRuns(attempt)
    /\ \E e \in TransportExceptions :
          HandleException(e, req_log \o << CallEv(attempt, e, None) >>)
    /\ calls_made' = Counted
    /\ UNCHANGED << config_vars, stage_vars, req_kind, category_id, all_products, page,
                    requested, fetched, beyond, returned >>

\* status 200, sleep(rate_limit_delay) (line 80), then response.json() raises
AttemptUndecodable ==
    /\ pc = "request"
    /\ LoopRuns(attempt)
    /\ HandleException(DecodeException,
                       req_log \o << CallEv(attempt, "200bad", None), DelayEv >>)
    /\ calls_made' = Counted
    /\ UNCHANGED << config_vars, stage_vars, req_kind, category_id, all_products, page,
                    requested, fetched, beyond, returned >>

\* the loop is over: return None (line 94)
Exhausted ==
    /\ pc = "request"
    /\ ~LoopRuns(attempt)
    /\ result' = None
    /\ pc' = ReturnTo
    /\ UNCHANGED << calls_made, config_vars, stage_vars, req_kind, attempt, req_log, category_id,
                    all_products, page, requested, fetched, beyond, returned >>

----------------------------------------------------------------------------
(* get_categories, get_products_by_category, get_all_products_in_category *)

\* `if data:` (lines 105, 124): None and the empty object are falsy
Truthy(data) == ~data.none /\ data.keys # {}

\* data.get(key, [])
DictGet(data, key) == IF key \in data.keys THEN data[key] ELSE << >>

\* get_categories (lines 103-110), from the value of _make_request
GetCategories(data) ==
    IF Truthy(data) THEN DictGet(data, "categories") ELSE << >>

\* get_products_by_category (lines 122-129), from the value of _make_request
GetProducts(data) ==
    IF Truthy(data) THEN DictGet(data, "products") ELSE << >>

\* category_name.lower() in cat.get('name', '').lower() (line 137)
NameMatches(q, name) == IsSubstring(Lower(q), Lower(name))

MinOf(S) == CHOOSE x \in S : \A y \in S : x <= y

\* the for loop with break (lines 134-140): the id of the first match
ResolveCategoryId(cats, q) ==
    LET hits == {i \in 1..Len(cats) : NameMatches(q, cats[i].name)}
    IN  IF hits = {} THEN NoneId ELSE cats[MinOf(hits)].id

\* mutant: the test of line 142 never fires
NotFound_Never(cid) == FALSE

\* `if not category_id` (line 142)
NotFound(cid) == cid = NoneId \/ cid = 0

\* mutant: page > max_pages written for page >= max_pages
MaxPagesReached_Late(p) == max_pages > 0 /\ p > max_pages

\* mutant: max_pages < 0 written for max_pages > 0, so that no limit applies
MaxPagesReached_Sign(p) == max_pages < 0 /\ p >= max_pages

\* max_pages > 0 and page >= max_pages (line 160)
MaxPagesReached(p) == max_pages > 0 /\ p >= max_pages

\* mutant: the page size is compared one too low
IsShortPage_OffByOne(products) == Len(products) < products_per_page - 1

\* len(products) < products_per_page (line 165)
IsShortPage(products) == Len(products) < products_per_page

\* mutant: the page counter advances by two
NextPage_Skip(p) == p + 2

\* page += 1 (line 168)
NextPage(p) == p + 1

\* all_products.extend(products) (line 157)
Extend(acc, products) == acc \o products

\* mutant: a failed page discards what was accumulated
ReturnValue_Discard(acc) == << >>

\* return all_products (line 171), reached from each break
ReturnValue(acc) == acc

\* entry: get_categories() starts its request (lines 133, 103)
Start ==
    /\ pc = "start"
    /\ req_kind' = "categories"
    /\ attempt' = 0
    /\ req_log' = << >>
    /\ calls_made' = 0
    /\ pc' = "request"
    /\ UNCHANGED << config_vars, stage_vars, result, category_id, all_products, page,
                    requested, fetched, beyond, returned >>

\* get_categories returns; resolve the name (lines 105-148)
Resolve ==
    /\ pc = "resolve"
    /\ LET cid == ResolveCategoryId(GetCategories(result), category_name)
       IN  /\ category_id' = cid
           /\ IF NotFound(cid)
              THEN /\ returned' = << >>
                   /\ pc' = "done"
              ELSE /\ pc' = "loop"
                   /\ UNCHANGED returned
    /\ all_products' = << >>
    /\ page' = 1
    /\ req_log' = << >>
    /\ result' = None
    /\ UNCHANGED << calls_made, config_vars, stage_vars, req_kind, attempt, requested, fetched, beyond >>

\* loop head: get_products_by_category(category_id, page) starts its request
FetchPage ==
    /\ pc = "loop"
    /\ requested' = IF beyond THEN requested ELSE Append(requested, page)
    /\ req_kind' = "products"
    /\ attempt' = 0
    /\ req_log' = << >>
    /\ pc' = "request"
    /\ UNCHANGED << calls_made, config_vars, stage_vars, result, category_id, all_products, page,
                    fetched, beyond, returned >>

\* get_products_by_category returns; the loop body (lines 152-171).
\* Python's integers and lists do not overflow: pages 1..MaxPageNo are tracked
\* exactly, every later iteration is folded into `beyond`, where the code's
\* conditions still decide the control flow and the histories stop growing.
PageReturn ==
    /\ pc = "page_ret"
    /\ LET products == GetProducts(result)
           acc == IF beyond THEN all_products ELSE Extend(all_products, products)
       IN  /\ fetched' = IF beyond THEN fetched ELSE Append(fetched, products)
           /\ IF products = << >>
              THEN /\ returned' = ReturnValue(all_products)
                   /\ pc' = "done"
                   /\ UNCHANGED << all_products, page, beyond >>
              ELSE /\ all_products' = acc
                   /\ IF MaxPagesReached(page) \/ IsShortPage(products)
                      THEN /\ returned' = ReturnValue(acc)
                           /\ pc' = "done"
                           /\ UNCHANGED << page, beyond >>
                      ELSE /\ pc' = "loop"
                           /\ IF NextPage(page) <= MaxPageNo /\ ~beyond
                              THEN page' = NextPage(page) /\ UNCHANGED beyond
                              ELSE beyond' = TRUE /\ UNCHANGED page
                           /\ UNCHANGED returned
    /\ req_log' = << >>
    /\ result' = None
    /\ UNCHANGED << calls_made, config_vars, stage_vars, req_kind, attempt, category_id, requested >>

----------------------------------------------------------------------------
(* extract_product_details and _download_image, lines 173-221 *)

MaxPrice == 6

\* Python values of a raw record's fields, by type.  A number stands for
\* itself, a numeric string for the number it spells, other strings and lists
\* are told apart by v.  Absent says the record has no such key.
Absent == [t |-> "absent", v |-> 0]
PyNone == [t |-> "none", v |-> 0]
PyNum(n) == [t |-> "num", v |-> n]
PyNumStr(n) == [t |-> "numstr", v |-> n]
PyStr(n) == [t |-> "str", v |-> n]
PyList(n) == [t |-> "list", v |-> n]
PyNumList(n) == [t |-> "numlist", v |-> n]
PyBool(b) == [t |-> "bool", v |-> IF b THEN 1 ELSE 0]

\* the sentinel 'N/A' and the empty string
StrNA == PyStr(0)
StrEmpty == PyStr(-1)

RawKeys ==
    { "id", "name", "brand", "price", "mrp", "weight", "unit", "quantity",
      "in_stock", "image_url", "thumbnail_url", "category", "subcategory",
      "description", "rating", "review_count", "tags" }

DetailFields ==
    { "product_id", "name", "brand", "price", "mrp", "weight", "unit",
      "quantity", "availability", "image_url", "thumbnail_url", "category",
      "subcategory", "description", "rating", "review_count", "tags",
      "scraped_at", "discount_percent" }

\* the value of a call that may raise
Ok(x) == [exc |-> "none", val |-> x]
Raise(e) == [exc |-> e, val |-> PyNone]

\* product.get(key, default)
Get(raw, key, default) == IF raw[key].t = "absent" THEN default ELSE raw[key]

\* float(x): numbers, numeric strings and booleans convert, another string is
\* a ValueError, None and lists are a TypeError
ToFloat(x) ==
    IF x.t \in {"num", "numstr", "bool"} THEN Ok(PyNum(x.v))
    ELSE IF x.t = "str" THEN Raise("ValueError")
    ELSE Raise("TypeError")

\* int(x), on the same values
ToInt(x) ==
    IF x.t \in {"num", "numstr", "bool"} THEN Ok(PyNum(x.v))
    ELSE IF x.t = "str" THEN Raise("ValueError")
    ELSE Raise("TypeError")

\* ', '.join(x): the empty list gives '', a list of strings its joined items,
\* a string its characters joined (another string); anything else is a
\* TypeError
Join(x) ==
    IF x.t = "list" THEN Ok(IF x.v = 0 THEN StrEmpty ELSE PyStr(x.v))
    ELSE IF x.t = "str" THEN Ok(PyStr(100 + x.v))
    ELSE Raise("TypeError")

\* round(num / den) for den > 0, ties to the even neighbour as Python rounds
RoundHalfEven(num, den) ==
    LET q == num \div den
        r == num - q * den
    IN  IF 2 * r < den THEN q
        ELSE IF 2 * r > den THEN q + 1
        ELSE IF q % 2 = 0 THEN q ELSE q + 1

\* mutant: the quotient is cut after two decimals, not rounded
DiscountPercent_Truncated(price, mrp) ==
    IF mrp > 0 THEN ((mrp - price) * 10000) \div mrp ELSE 0

\* lines 196-201, in hundredths of a percent:
\* round(((mrp - price) / mrp) * 100, 2) when mrp > 0, else 0
DiscountPercent(price, mrp) ==
    IF mrp > 0 THEN RoundHalfEven((mrp - price) * 10000, mrp) ELSE 0

\* the conversions of the dict literal, in the order it evaluates them
\* (lines 178-191); the first that raises ends the call
Conversions(raw) ==
    << ToFloat(Get(raw, "price", PyNum(0))),
       ToFloat(Get(raw, "mrp", PyNum(0))),
       ToFloat(Get(raw, "rating", PyNum(0))),
       ToInt(Get(raw, "review_count", PyNum(0))),
       Join(Get(raw, "tags", PyList(0))) >>

FirstRaise(cs) ==
    LET bad == {i \in 1..Len(cs) : cs[i].exc # "none"}
    IN  IF bad = {} THEN "none" ELSE cs[MinOf(bad)].exc

\* the details dict, lines 174-201, when no conversion raises
Details(raw) ==
    LET cs == Conversions(raw)
    IN  [ product_id |-> Get(raw, "id", StrNA),
          name |-> Get(raw, "name", StrNA),
          brand |-> Get(raw, "brand", StrNA),
          price |-> cs[1].val,
          mrp |-> cs[2].val,
          weight |-> Get(raw, "weight", StrNA),
          unit |-> Get(raw, "unit", StrNA),
          quantity |-> Get(raw, "quantity", StrNA),
          availability |-> Get(raw, "in_stock", PyBool(TRUE)),
          image_url |-> Get(raw, "image_url", StrNA),
          thumbnail_url |-> Get(raw, "thumbnail_url", StrNA),
          category |-> Get(raw, "category", StrNA),
          subcategory |-> Get(raw, "subcategory", StrNA),
          description |-> Get(raw, "description", StrNA),
          rating |-> cs[3].val,
          review_count |-> cs[4].val,
          tags |-> cs[5].val,
          scraped_at |-> PyStr(9),
          discount_percent |-> PyNum(DiscountPercent(cs[1].val.v, cs[2].val.v)) ]

\* what extract_product_details has before it built anything
NoDetails == [none |-> TRUE]

\* self.download_images and details['image_url'] != 'N/A' (line 204)
WantsImage(details) == download_images /\ details.image_url # StrNA

\* what a download can meet: the image is written; a status other than 200;
\* requests.get raises; opening or writing the file raises
ImageOutcomes == {"saved", "not_200", "request_error", "write_error"}
ImageExceptions == {"request_error", "write_error"}

\* mutant: only the request's exceptions are caught, not the file's
DownloadCatches_RequestOnly(e) == e = "request_error"

\* except Exception as e (line 220)
DownloadCatches(e) == e \in ImageExceptions

\* lines 174-201: build the dict and the discount
ExtractDetails ==
    /\ pc = "extract"
    /\ LET e == FirstRaise(Conversions(norm_raw))
       IN  IF e # "none"
           THEN /\ norm_exc' = e
                /\ pc' = "extract_raised"
                /\ UNCHANGED norm_out
           ELSE /\ norm_out' = Details(norm_raw)
                /\ pc' = IF WantsImage(Details(norm_raw))
                         THEN "image" ELSE "extracted"
                /\ UNCHANGED norm_exc
    /\ UNCHANGED << frida_vars, calls_made, config_vars, an_products, an_report, run_vars,
                    download_images, norm_raw, norm_img, req_kind,
                    attempt, req_log, result, category_id, all_products, page,
                    requested, fetched, beyond, returned >>

\* lines 204-207 and _download_image: the download, then return details
DownloadImage ==
    /\ pc = "image"
    /\ \E o \in ImageOutcomes :
          /\ norm_img' = o
          /\ IF o \in ImageExceptions /\ ~DownloadCatches(o)
             THEN norm_exc' = o /\ pc' = "extract_raised"
             ELSE pc' = "extracted" /\ UNCHANGED norm_exc
    /\ UNCHANGED << frida_vars, calls_made, config_vars, an_products, an_report, run_vars,
                    download_images, norm_raw, norm_out, req_kind,
                    attempt, req_log, result, category_id, all_products, page,
                    requested, fetched, beyond, returned >>

----------------------------------------------------------------------------
(* analyze_products and print_analysis, lines 279-325 *)

MaxProducts == 4

\* Python's truth value of a field
PyTruthy(x) ==
    IF x.t \in {"num", "bool", "list", "numlist"} THEN x.v # 0
    ELSE IF x.t = "str" THEN x # StrEmpty
    ELSE FALSE

\* sum(1 for ... if cond), over the sequence of the values of cond
RECURSIVE CountTrue(_)
CountTrue(flags) ==
    IF flags = << >> THEN 0
    ELSE (IF Head(flags) THEN 1 ELSE 0) + CountTrue(Tail(flags))

\* sum(p[field] for p in products)
RECURSIVE SumOf(_, _)
SumOf(products, field) ==
    IF products = << >> THEN 0
    ELSE Head(products)[field].v + SumOf(Tail(products), field)

\* set(p[field] for p in products if p[field] != 'N/A'), item by item
RECURSIVE DistinctOf(_, _)
DistinctOf(products, field) ==
    IF products = << >> THEN {}
    ELSE (IF Head(products)[field] # StrNA THEN {Head(products)[field]} ELSE {})
         \cup DistinctOf(Tail(products), field)

\* the conditions of lines 285-286 and 298-301
IsAvailable(p) == PyTruthy(p.availability)
\* mutant: every product counts as unavailable
IsUnavailable_Always(p) == TRUE

IsUnavailable(p) == ~PyTruthy(p.availability)
Under50(p) == p.price.v < 50
\* mutant: 50 falls in no bucket
From50To100_Strict(p) == 50 < p.price.v /\ p.price.v < 100
From50To100(p) == 50 <= p.price.v /\ p.price.v < 100
From100To200(p) == 100 <= p.price.v /\ p.price.v < 200
Over200(p) == p.price.v >= 200

ReportKeys ==
    { "total_products", "available_products", "unavailable_products",
      "average_price", "average_mrp", "average_discount", "max_price",
      "min_price", "brands", "categories", "price_ranges" }

\* a report: the keys the dict has and, for each key it has, its value.
\* Averages are in hundredths; brands and categories are list(set(...)), a
\* list without repetition in no particular order, held here as the set.
Report(keys, total, avail, unavail, avgp, avgm, avgd, maxp, minp, brands, cats, ranges) ==
    [ keys |-> keys, total_products |-> total, available_products |-> avail,
      unavailable_products |-> unavail, average_price |-> avgp,
      average_mrp |-> avgm, average_discount |-> avgd, max_price |-> maxp,
      min_price |-> minp, brands |-> brands, categories |-> cats,
      price_ranges |-> ranges ]

NoRanges == [under_50 |-> 0, r_50_100 |-> 0, r_100_200 |-> 0, over_200 |-> 0]

\* the empty dict of line 281: no key at all
EmptyDict == Report({}, 0, 0, 0, 0, 0, 0, 0, 0, {}, {}, NoRanges)

PricesOf(products) == {products[i].price.v : i \in 1..Len(products)}

MaxOf(S) == CHOOSE x \in S : \A y \in S : x >= y

\* lines 297-302
PriceRanges(products) ==
    [ under_50 |-> CountTrue([i \in 1..Len(products) |-> Under50(products[i])]),
      r_50_100 |-> CountTrue([i \in 1..Len(products) |-> From50To100(products[i])]),
      r_100_200 |-> CountTrue([i \in 1..Len(products) |-> From100To200(products[i])]),
      over_200 |-> CountTrue([i \in 1..Len(products) |-> Over200(products[i])]) ]

\* mutant: the sentinel is kept in the sets
Brands_KeepSentinel(products) ==
    {products[i].brand : i \in 1..Len(products)}

\* line 292
Brands(products) == DistinctOf(products, "brand")

\* line 293
CategoriesOf(products) == DistinctOf(products, "category")

\* analyze_products, lines 279-304
AnalyzeProductsOf(products) ==
    IF products = << >>
    THEN EmptyDict
    ELSE Report(ReportKeys,
                Len(products),
                CountTrue([i \in 1..Len(products) |-> IsAvailable(products[i])]),
                CountTrue([i \in 1..Len(products) |-> IsUnavailable(products[i])]),
                RoundHalfEven(SumOf(products, "price") * 100, Len(products)),
                RoundHalfEven(SumOf(products, "mrp") * 100, Len(products)),
                RoundHalfEven(SumOf(products, "discount_percent"), Len(products)),
                MaxOf(PricesOf(products)),
                MinOf(PricesOf(products)),
                Brands(products),
                CategoriesOf(products),
                PriceRanges(products))

\* the keys print_analysis subscripts (lines 310-324)
PrintedKeys == ReportKeys

analysis_frame ==
    << frida_vars, calls_made, config_vars, norm_vars, run_vars, an_products, req_kind, attempt, req_log,
       result, category_id, all_products, page, requested, fetched, beyond,
       returned >>

\* analyze_products(products) called and its dict returned
AnalyzeProducts ==
    /\ pc = "analyze"
    /\ an_report' = AnalyzeProductsOf(an_products)
    /\ pc' = "analyzed"
    /\ UNCHANGED analysis_frame

\* print_analysis(products): analyze, then subscript the dict; a key the
\* dict lacks is a KeyError
PrintAnalysis ==
    /\ pc = "analyze"
    /\ an_report' = AnalyzeProductsOf(an_products)
    /\ pc' = IF PrintedKeys \subseteq AnalyzeProductsOf(an_products).keys
             THEN "printed" ELSE "print_raised"
    /\ UNCHANGED analysis_frame

----------------------------------------------------------------------------
(* Specifications *)

Categories == [id : CategoryIds, name : StringsUpTo(MaxNameLen)]

Listings == UNION {[1..k -> Categories] : k \in 0..2}

DefaultListing == << [id |-> 1, name |-> << "F", "d" >>] >>

\* a raw record with the given fields, every other key absent
RawWith(fields) ==
    [k \in RawKeys |-> IF k \in DOMAIN fields THEN fields[k] ELSE Absent]

NormIdle ==
    /\ download_images = FALSE
    /\ norm_raw = RawWith([id |-> PyStr(1)])
    /\ norm_out = NoDetails
    /\ norm_exc = "none"
    /\ norm_img = "not_attempted"

ConfigInit(Ns, Ms, Ps, Ls, Qs) ==
    /\ max_retries \in Ns
    /\ max_pages \in Ms
    /\ products_per_page \in Ps
    /\ svc_categories \in Ls
    /\ category_name \in Qs

\* the locals of a scrape before it starts
ScrapeIdle ==
    /\ req_kind = "categories"
    /\ attempt = 0
    /\ req_log = << >>
    /\ result = None
    /\ category_id = NoneId
    /\ all_products = << >>
    /\ page = 1
    /\ requested = << >>
    /\ fetched = << >>
    /\ beyond = FALSE
    /\ returned = << >>
    /\ calls_made = 0

AnalysisIdle ==
    /\ an_products = << >>
    /\ an_report = EmptyDict

\* no Frida run
FridaIdle ==
    /\ attach_mode = TRUE
    /\ duration = 300
    /\ stages_run = << >>
    /\ captured_data = << >>
    /\ files_written = << >>
    /\ run_value = "none"

\* a dict from category names to product lists: the keys it has and the
\* value at each
Dict(keys, at) == [keys |-> keys, at |-> at]

RunNames == {<< "f" >>, << "F", "F" >>}

EmptyResults == Dict({}, [n \in RunNames |-> << >>])

NotReturned == [returned |-> FALSE, value |-> EmptyResults]

RunIdle ==
    /\ run_categories = << >>
    /\ run_idx = 0
    /\ results = EmptyResults
    /\ scrapes = << >>
    /\ saved = << >>
    /\ run_result = NotReturned

InitWith(Ns, Ms, Ps, Ls, Qs) ==
    /\ ConfigInit(Ns, Ms, Ps, Ls, Qs)
    /\ pc = "start"
    /\ ScrapeIdle
    /\ NormIdle
    /\ AnalysisIdle
    /\ RunIdle
    /\ track_calls = FALSE
    /\ FridaIdle

Init ==
    InitWith(0..MaxRetries, 0..MaxPagesCfg, 1..MaxPageSize,
             {DefaultListing}, {<< "f" >>})

Next ==
    \/ Start
    \/ AttemptOk
    \/ Attempt429
    \/ AttemptOtherStatus
    \/ AttemptException
    \/ AttemptUndecodable
    \/ Exhausted
    \/ Resolve
    \/ FetchPage
    \/ PageReturn

Spec == Init /\ [][Next]_vars

\* The scraper is one sequential thread that runs until it returns: a step it
\* can take is eventually taken.
InitLive ==
    InitWith(0..1, 0..MaxPagesCfg, 1..MaxPageSize, {DefaultListing}, {<< "f" >>})

SpecLive == InitLive /\ [][Next]_vars /\ WF_vars(Next)

\* A scrape with a page limit, its transport calls counted.
InitBudget ==
    /\ ConfigInit(0..MaxRetries, 1..MaxPagesCfg, {1}, {DefaultListing}, {<< "f" >>})
    /\ pc = "start"
    /\ ScrapeIdle
    /\ NormIdle
    /\ AnalysisIdle
    /\ RunIdle
    /\ track_calls = TRUE
    /\ FridaIdle

SpecBudget == InitBudget /\ [][Next]_vars

\* Every listing of at most two categories, every query.
InitResolve ==
    InitWith({1}, {1}, {1}, Listings, StringsUpTo(1) \cup {<< "F", "d" >>})

SpecResolve == InitResolve /\ [][Next]_vars

\* what price and mrp may hold in a raw record
NumericInputs ==
    {Absent, PyNone, PyStr(1), PyNumStr(1)} \cup {PyNum(n) : n \in 0..MaxPrice}

NormRaws ==
    { RawWith([id |-> PyStr(1), price |-> pr, mrp |-> mr, rating |-> ra,
               review_count |-> rc, tags |-> tg, image_url |-> im]) :
        pr \in NumericInputs, mr \in NumericInputs,
        ra \in {Absent, PyNone, PyNum(4)},
        rc \in {Absent, PyStr(1), PyNum(3)},
        tg \in {Absent, PyNone, PyStr(1), PyList(1), PyNumList(1)},
        im \in {Absent, PyNone, PyStr(2)} }

\* extract_product_details on one raw record, every shape of it
InitNormalize ==
    /\ ConfigInit({1}, {1}, {1}, {DefaultListing}, {<< "f" >>})
    /\ pc = "extract"
    /\ ScrapeIdle
    /\ download_images \in BOOLEAN
    /\ norm_raw \in NormRaws
    /\ norm_out = NoDetails
    /\ norm_exc = "none"
    /\ norm_img = "not_attempted"
    /\ AnalysisIdle
    /\ RunIdle
    /\ track_calls = FALSE
    /\ FridaIdle

NextNormalize ==
    \/ ExtractDetails
    \/ DownloadImage

SpecNormalize == InitNormalize /\ [][NextNormalize]_vars

\* a normalized product, as extract_product_details builds it
Product(price, avail, brand, category) ==
    Details(RawWith([id |-> PyStr(1), price |-> PyNum(price), mrp |-> PyNum(price),
                     in_stock |-> PyBool(avail), brand |-> brand,
                     category |-> category]))

\* prices on both sides of every bucket boundary
AnalysisPrices == {10, 49, 50, 60, 99, 100, 150, 199, 200, 250}

PricedProducts == {Product(pr, TRUE, PyStr(1), PyStr(3)) : pr \in AnalysisPrices}

LabelledProducts ==
    { Product(10, av, br, ca) :
        av \in BOOLEAN, br \in {Absent, PyStr(1), PyStr(2)},
        ca \in {Absent, PyStr(3)} }

\* analyze_products / print_analysis on a list of normalized products
InitAnalyze ==
    /\ ConfigInit({1}, {1}, {1}, {DefaultListing}, {<< "f" >>})
    /\ pc = "analyze"
    /\ ScrapeIdle
    /\ NormIdle
    /\ an_products \in
          UNION {[1..k -> PricedProducts] : k \in 0..MaxProducts}
          \cup UNION {[1..k -> LabelledProducts] : k \in 0..(MaxProducts - 1)}
    /\ an_report = EmptyDict
    /\ RunIdle
    /\ track_calls = FALSE
    /\ FridaIdle

NextAnalyze ==
    \/ AnalyzeProducts
    \/ PrintAnalysis

SpecAnalyze == InitAnalyze /\ [][NextAnalyze]_vars

----------------------------------------------------------------------------
(* scrape_category and scrape_multiple_categories, lines 223-254 *)

MaxRunLen == 2

\* results[category] = products (line 250)
Put(d, k, v) == Dict(d.keys \cup {k}, [d.at EXCEPT ![k] = v])

\* The raw record the service served as rec. Its fields are looked at only
\* when it is normalized: well formed, or with a null price.
RawOf(rec, malformed) ==
    RawWith([id |-> PyStr(10 * rec.pg + rec.ix),
             price |-> IF malformed THEN PyNone ELSE PyNum(2),
             mrp |-> PyNum(4)])

\* [self.extract_product_details(p) for p in raw_products] (line 231): the
\* first exception a record raises, or "none"
ComprehensionRaise(raws) ==
    LET bad == {i \in 1..Len(raws) : FirstRaise(Conversions(raws[i])) # "none"}
    IN  IF bad = {} THEN "none" ELSE FirstRaise(Conversions(raws[MinOf(bad)]))

SaveOutcomes == {"written", "io_error"}

run_frame ==
    << frida_vars, calls_made, track_calls, max_retries, max_pages, products_per_page, svc_categories, norm_vars,
       an_products, an_report, run_categories >>

\* the for loop of line 244 takes the next entry and calls scrape_category,
\* which calls get_all_products_in_category (lines 224-226)
ScrapeCategory ==
    /\ pc = "run_loop"
    /\ run_idx < Len(run_categories)
    /\ run_idx' = run_idx + 1
    /\ category_name' = run_categories[run_idx + 1]
    /\ req_kind' = "categories"
    /\ attempt' = 0
    /\ req_log' = << >>
    /\ result' = None
    /\ category_id' = NoneId
    /\ all_products' = << >>
    /\ page' = 1
    /\ requested' = << >>
    /\ fetched' = << >>
    /\ beyond' = FALSE
    /\ returned' = << >>
    /\ pc' = "start"
    /\ UNCHANGED << run_frame, results, scrapes, saved, run_result >>

\* get_all_products_in_category returned: the rest of scrape_category (lines
\* 228-236), then results[category] = products (line 250)
CategoryDone ==
    /\ pc = "done"
    /\ run_idx > 0
    /\ \E malformed \in [1..Len(returned) -> BOOLEAN], write \in SaveOutcomes :
          LET raws == [i \in 1..Len(returned) |-> RawOf(returned[i], malformed[i])]
              products == [i \in 1..Len(returned) |-> Details(raws[i])]
          IN  IF returned = << >>
              THEN /\ write = "written"
                   /\ results' = Put(results, category_name, << >>)
                   /\ scrapes' = Append(scrapes, [name |-> category_name,
                                                   products |-> << >>])
                   /\ pc' = "run_loop"
                   /\ UNCHANGED << saved, norm_exc >>
              ELSE IF ComprehensionRaise(raws) # "none"
              THEN /\ write = "written"
                   /\ norm_exc' = ComprehensionRaise(raws)
                   /\ pc' = "run_raised"
                   /\ UNCHANGED << results, scrapes, saved >>
              ELSE IF write = "io_error"
              THEN /\ norm_exc' = "OSError"
                   /\ pc' = "run_raised"
                   /\ UNCHANGED << results, scrapes, saved >>
              ELSE /\ saved' = Append(saved, [name |-> category_name,
                                               products |-> products])
                   /\ results' = Put(results, category_name, products)
                   /\ scrapes' = Append(scrapes, [name |-> category_name,
                                                   products |-> products])
                   /\ pc' = "run_loop"
                   /\ UNCHANGED norm_exc
    /\ UNCHANGED << frida_vars, calls_made, config_vars, an_products, an_report, download_images,
                    norm_raw, norm_out, norm_img, run_categories, run_idx,
                    run_result, req_kind, attempt, req_log, result,
                    category_id, all_products, page, requested, fetched,
                    beyond, returned >>

\* the list is used up: return results (line 254)
RunReturn ==
    /\ pc = "run_loop"
    /\ run_idx = Len(run_categories)
    /\ run_result' = [returned |-> TRUE, value |-> results]
    /\ pc' = "run_done"
    /\ UNCHANGED << frida_vars, calls_made, config_vars, norm_vars, an_products, an_report,
                    run_categories, run_idx, results, scrapes, saved,
                    req_kind, attempt, req_log, result, category_id,
                    all_products, page, requested, fetched, beyond, returned >>

Running == {"run_loop", "start", "request", "resolve", "loop", "page_ret", "done"}

\* KeyboardInterrupt delivered while the run is going. It is not an
\* Exception: the handler of line 89 does not catch it and no other handler
\* exists, so it leaves every frame of the run; no function returns a value.
Interrupt ==
    /\ pc \in Running
    /\ pc' = "interrupted"
    /\ UNCHANGED << calls_made, config_vars, stage_vars, req_kind, attempt, req_log,
                    result, category_id, all_products, page, requested,
                    fetched, beyond, returned >>

\* the category lists of a run
RunLists == UNION {[1..k -> RunNames] : k \in 0..MaxRunLen}

InitRun ==
    /\ ConfigInit({1}, {2}, {1}, {DefaultListing, << >>}, {<< >>})
    /\ pc = "run_loop"
    /\ ScrapeIdle
    /\ NormIdle
    /\ AnalysisIdle
    /\ run_categories \in RunLists
    /\ run_idx = 0
    /\ results = EmptyResults
    /\ scrapes = << >>
    /\ saved = << >>
    /\ run_result = NotReturned
    /\ track_calls = FALSE
    /\ FridaIdle

NextRun ==
    \/ Next
    \/ ScrapeCategory
    \/ CategoryDone
    \/ RunReturn
    \/ Interrupt

SpecRun == InitRun /\ [][NextRun]_vars

----------------------------------------------------------------------------
(* FridaScraper, src/zepto_frida_scraper.py lines 97-255 *)

MaxMessages == 2

\* everything the Frida run leaves alone
scraper_frame ==
    << config_vars, norm_vars, an_products, an_report, run_vars, calls_made,
       req_kind, attempt, req_log, result, category_id, all_products, page,
       requested, fetched, beyond, returned >>

\* a stage run has called, and whether it returned a true value
Stage(name, ok) == [name |-> name, ok |-> ok]

\* mutant: a failed stage does not end the run
StageExit_Continue(ok, next) == next

\* `if not self.stage(): return False` (lines 227-239)
StageExit(ok, next) == IF ok THEN next ELSE "returned"

StageValue(ok) == IF ok THEN "none" ELSE "False"

\* connect_device (lines 97-110): frida.get_usb_device works or raises
ConnectDevice ==
    /\ pc = "connect"
    /\ \E ok \in BOOLEAN :
          /\ stages_run' = Append(stages_run, Stage("connect", ok))
          /\ pc' = StageExit(ok, "attach")
          /\ run_value' = StageValue(ok)
    /\ UNCHANGED << scraper_frame, attach_mode, duration, captured_data,
                    files_written >>

\* attach_to_app (lines 112-122), taken when attach_mode
AttachToApp ==
    /\ pc = "attach"
    /\ attach_mode
    /\ \E ok \in BOOLEAN :
          /\ stages_run' = Append(stages_run, Stage("attach", ok))
          /\ pc' = StageExit(ok, "inject")
          /\ run_value' = StageValue(ok)
    /\ UNCHANGED << scraper_frame, attach_mode, duration, captured_data,
                    files_written >>

\* spawn_and_attach (lines 124-135), taken otherwise
SpawnAndAttach ==
    /\ pc = "attach"
    /\ ~attach_mode
    /\ \E ok \in BOOLEAN :
          /\ stages_run' = Append(stages_run, Stage("spawn", ok))
          /\ pc' = StageExit(ok, "inject")
          /\ run_value' = StageValue(ok)
    /\ UNCHANGED << scraper_frame, attach_mode, duration, captured_data,
                    files_written >>

\* inject_script (lines 163-174): from script.load() on, messages arrive
InjectScript ==
    /\ pc = "inject"
    /\ \E ok \in BOOLEAN :
          /\ stages_run' = Append(stages_run, Stage("inject", ok))
          /\ pc' = StageExit(ok, "capture")
          /\ run_value' = StageValue(ok)
    /\ UNCHANGED << scraper_frame, attach_mode, duration, captured_data,
                    files_written >>

\* start_capture is called and begins to sleep (lines 176-184)
StartCapture ==
    /\ pc = "capture"
    /\ stages_run' = Append(stages_run, Stage("capture", TRUE))
    /\ pc' = "capturing"
    /\ UNCHANGED << scraper_frame, attach_mode, duration, captured_data,
                    files_written, run_value >>

\* time.sleep(duration) ends: the time is over, KeyboardInterrupt is caught
\* (line 185), or a negative duration raises ValueError, which nothing catches
EndCapture ==
    /\ pc = "capturing"
    /\ pc' = IF duration < 0 THEN "frida_raised" ELSE "save"
    /\ UNCHANGED << scraper_frame, frida_vars >>

\* the top-level key of a captured body that holds its records, if any
BodyKeys == {"products", "data", "items", "other"}

\* what the injected script sends: an api_response whose body parses to an
\* object with n records under a key, one whose body does not parse, an error
Messages ==
    { [type |-> "send", key |-> k, n |-> n] : k \in BodyKeys, n \in 0..1 }
    \cup { [type |-> "send", key |-> "unparsable", n |-> 0],
           [type |-> "error", key |-> "other", n |-> 0] }

\* where run is while the script is loaded
Listening == {"capture", "capturing", "save", "extract"}

\* on_message (lines 137-161), called on Frida's thread
OnMessage ==
    /\ pc \in Listening
    /\ Len(captured_data) < MaxMessages
    /\ \E msg \in Messages :
          /\ msg.type = "send"
          /\ msg.key # "unparsable"
          /\ captured_data' = Append(captured_data, [key |-> msg.key, n |-> msg.n])
    /\ UNCHANGED << scraper_frame, pc, attach_mode, duration, stages_run,
                    files_written, run_value >>

\* save_captured_data (lines 187-203): nothing to save, or one file whose
\* write may fail and is then only reported
SaveCapturedData ==
    /\ pc = "save"
    /\ stages_run' = Append(stages_run, Stage("save", TRUE))
    /\ \E written \in BOOLEAN :
          files_written' =
              IF captured_data # << >> /\ written
              THEN Append(files_written, "captured_data")
              ELSE files_written
    /\ pc' = "extract"
    /\ UNCHANGED << scraper_frame, attach_mode, duration, captured_data,
                    run_value >>

\* extract_products_from_captured_data (lines 205-219): how many products
RECURSIVE ExtractedCount(_)
ExtractedCount(items) ==
    IF items = << >> THEN 0
    ELSE (IF Head(items).key \in {"products", "data", "items"}
          THEN Head(items).n ELSE 0) + ExtractedCount(Tail(items))

\* the end of run (lines 245-255): extract, write the products file when
\* there are products (an unguarded write), return True
ExtractAndReturn ==
    /\ pc = "extract"
    /\ \E written \in BOOLEAN :
          IF ExtractedCount(captured_data) = 0
          THEN /\ written
               /\ run_value' = "True"
               /\ pc' = "returned"
               /\ UNCHANGED files_written
          ELSE IF written
          THEN /\ files_written' = Append(files_written, "products")
               /\ run_value' = "True"
               /\ pc' = "returned"
          ELSE /\ pc' = "frida_raised"
               /\ UNCHANGED << files_written, run_value >>
    /\ UNCHANGED << scraper_frame, attach_mode, duration, stages_run,
                    captured_data >>

InitFrida ==
    /\ ConfigInit({1}, {1}, {1}, {DefaultListing}, {<< "f" >>})
    /\ pc = "connect"
    /\ ScrapeIdle
    /\ NormIdle
    /\ AnalysisIdle
    /\ RunIdle
    /\ track_calls = FALSE
    /\ attach_mode \in BOOLEAN
    /\ duration \in {-1, 0, 300}
    /\ stages_run = << >>
    /\ captured_data = << >>
    /\ files_written = << >>
    /\ run_value = "none"

NextFrida ==
    \/ ConnectDevice
    \/ AttachToApp
    \/ SpawnAndAttach
    \/ InjectScript
    \/ StartCapture
    \/ EndCapture
    \/ OnMessage
    \/ SaveCapturedData
    \/ ExtractAndReturn

SpecFrida == InitFrida /\ [][NextFrida]_vars

----------------------------------------------------------------------------
(* Reading the trace of a request *)

IsCall(e) == e.ev = "call"

Calls(log) == SelectSeq(log, IsCall)

\* position in the trace of the call made in iteration k (0 when there is none)
CallPos(log, k) ==
    LET at == {i \in 1..Len(log) : log[i].ev = "call" /\ log[i].n = k}
    IN  IF at = {} THEN 0 ELSE MinOf(at)

HasCall(log, k) == CallPos(log, k) > 0

\* what the policy did between the call of iteration k and the next call
Between(log, k) == SubSeq(log, CallPos(log, k) + 1, CallPos(log, k + 1) - 1)

Delays(log) == {i \in 1..Len(log) : log[i].ev = "delay"}

Succeeded(log) == {i \in 1..Len(log) : log[i].ev = "call" /\ log[i].out = "200"}

\* _make_request has returned and its caller has not yet consumed the value
RequestReturned == pc \in {"resolve", "page_ret"}

All429(log) == \A i \in 1..Len(log) : log[i].ev = "call" => log[i].out = "429"

----------------------------------------------------------------------------
(* Claims about _make_request *)

\* C1: against a transport that answers 429 on every call, the policy makes
\* exactly max_retries calls, in iterations 0..max_retries-1, waits 2^k time
\* units (and nothing else) between the call of iteration k and the next, and
\* returns None.
C1_Always429 ==
    (RequestReturned /\ All429(req_log)) =>
        /\ Len(Calls(req_log)) = max_retries
        /\ \A k \in 0..(max_retries - 1) : Calls(req_log)[k + 1].n = k
        /\ \A k \in 0..(max_retries - 2) :
              Between(req_log, k) = << SleepEv(Pow2(k)) >>
        /\ result = None

C1_Witness ==
    /\ RequestReturned
    /\ All429(req_log)
    /\ max_retries = 3
    /\ Len(Calls(req_log)) = 3
    /\ Between(req_log, 0) = << SleepEv(1) >>
    /\ Between(req_log, 1) = << SleepEv(2) >>

\* C2: whatever the transport answers, the policy makes at most max_retries
\* calls, never raises, returns the body of the first successful call (which
\* is its last call), and returns None exactly when no call succeeded.
C2_BoundedNoRaise ==
    /\ pc # "raised"
    /\ Len(Calls(req_log)) <= max_retries
    /\ RequestReturned =>
          /\ (result = None) <=> (Succeeded(req_log) = {})
          /\ Succeeded(req_log) # {} =>
                /\ result = req_log[MinOf(Succeeded(req_log))].body
                /\ Cardinality(Succeeded(req_log)) = 1
                /\ CallPos(req_log, Len(Calls(req_log)) - 1)
                      = MinOf(Succeeded(req_log))

C2_Witness ==
    /\ RequestReturned
    /\ result # None
    /\ Len(Calls(req_log)) = 3
    /\ \E i \in 1..Len(req_log) : req_log[i].out = "200bad"
    /\ \E i \in 1..Len(req_log) : req_log[i].out = "Timeout"

FailedOut == {"other"} \cup TransportExceptions

\* C3: after an iteration k that ended with another status or a transport
\* failure, with attempts remaining, the policy waits 2^k before the next
\* call; with none remaining it returns None.
C3_BackoffAfterFailure ==
    /\ \A k \in 0..(max_retries - 2) :
          ( /\ HasCall(req_log, k)
            /\ req_log[CallPos(req_log, k)].out \in FailedOut
            /\ HasCall(req_log, k + 1) )
          => Between(req_log, k) = << SleepEv(Pow2(k)) >>
    /\ ( /\ RequestReturned
         /\ HasCall(req_log, max_retries - 1)
         /\ req_log[CallPos(req_log, max_retries - 1)].out \in FailedOut )
       => result = None

\* C4: the post-success delay happens only right after a call that succeeded
\* (200 with a decodable body), at most once in a request, and ends it: the
\* body of that call is returned and no call follows.
C4_DelayOnlyOnSuccess ==
    /\ Cardinality(Delays(req_log)) <= 1
    /\ \A i \in Delays(req_log) :
          /\ i > 1
          /\ req_log[i - 1].ev = "call"
          /\ req_log[i - 1].out = "200"
          /\ i = Len(req_log)
    /\ (RequestReturned /\ result # None) =>
          /\ Cardinality(Delays(req_log)) = 1
          /\ result = req_log[Len(req_log) - 1].body

----------------------------------------------------------------------------
(* Claims about the page loop of get_all_products_in_category *)

Done == pc = "done"

IsFull(products) == Len(products) = products_per_page

\* C5 as stated: the page loop stops in every run, max_pages = 0 included.
C5_AlwaysTerminates == <>Done

\* C5 amended: with max_pages > 0 the loop stops in every run, after at most
\* max_pages page fetches.
C5_TerminatesWithLimit ==
    /\ [](max_pages > 0 => <>Done)
    /\ [](max_pages > 0 => Len(requested) <= max_pages)

C5_Witness ==
    /\ Done
    /\ max_pages = 2
    /\ Len(requested) = 2
    /\ \A j \in 1..Len(fetched) : IsFull(fetched[j])

\* pages 1..k-1 were full and page k is short and not empty
ShortAt(k) ==
    /\ \A j \in 1..(k - 1) : IsFull(fetched[j])
    /\ Len(fetched[k]) > 0
    /\ Len(fetched[k]) < products_per_page

\* C6: with no page limit, once pages 1..k-1 came back full and page k short
\* and non-empty, the loop has stopped: k pages were requested, none after
\* page k, and the pages' concatenation is returned.
C6_ShortPageStops ==
    \A k \in 1..Len(fetched) :
        (max_pages = 0 /\ ShortAt(k)) =>
            /\ Done
            /\ Len(fetched) = k
            /\ requested = [i \in 1..k |-> i]
            /\ returned = Flatten(fetched)
            /\ Len(returned) = (k - 1) * products_per_page + Len(fetched[k])

C6_Witness ==
    /\ Done
    /\ max_pages = 0
    /\ products_per_page = 2
    /\ Len(fetched) = 3
    /\ ShortAt(3)
    /\ Len(returned) = 5

\* C7: with max_pages = m > 0, page m+1 is never requested, and when every
\* page came back full the loop returns exactly m pages, m * page_size records.
C7_MaxPagesStops ==
    /\ max_pages > 0 =>
          /\ Len(requested) <= max_pages
          /\ \A i \in 1..Len(requested) : requested[i] <= max_pages
    /\ ( /\ Done
         /\ max_pages > 0
         /\ fetched # << >>
         /\ \A j \in 1..Len(fetched) : IsFull(fetched[j]) )
       => /\ Len(fetched) = max_pages
          /\ returned = Flatten(fetched)
          /\ Len(returned) = max_pages * products_per_page

C7_Witness ==
    /\ Done
    /\ max_pages = 2
    /\ products_per_page = 2
    /\ Len(fetched) = 2
    /\ \A j \in 1..Len(fetched) : IsFull(fetched[j])
    /\ Len(returned) = 4

\* the request of a page gave None, an object without a products key, or an
\* empty products list
NoRecords(data) ==
    \/ data = None
    \/ "products" \notin data.keys
    \/ data.products = << >>

\* C8: when the request of page p gives no result, no products key or an
\* empty list, the loop stops at once, without raising, and returns what
\* pages 1..p-1 accumulated, unchanged and in order.
C8_EmptyPageStops ==
    [][ (pc = "page_ret" /\ ~beyond /\ NoRecords(result)) =>
           /\ pc' = "done"
           /\ all_products = Flatten(fetched)
           /\ Len(fetched) = page - 1
           /\ returned' = all_products
           /\ all_products' = all_products ]_vars

C8_Witness ==
    /\ Done
    /\ Len(fetched) = 3
    /\ fetched[3] = << >>
    /\ returned = fetched[1] \o fetched[2]
    /\ Len(returned) >= 2

\* C9: pages are requested as 1, 2, 3, ...; page j+1 only after page j came
\* back with at least page_size records and below the page limit; each fetched
\* page is the page requested; the result is the pages' concatenation in order.
C9_SequentialPages ==
    /\ requested = [i \in 1..Len(requested) |-> i]
    /\ Len(fetched) <= Len(requested)
    /\ Len(requested) <= Len(fetched) + 1
    /\ \A j \in 1..(Len(requested) - 1) :
          /\ Len(fetched[j]) >= products_per_page
          /\ ~(max_pages > 0 /\ j >= max_pages)
    /\ \A j \in 1..Len(fetched) :
          fetched[j] = PageOf(j, Len(fetched[j]))
    /\ pc \in {"loop", "request", "page_ret"} /\ req_kind = "products"
          => all_products = Flatten(fetched)
    /\ (Done /\ ~beyond) => returned = Flatten(fetched)

C9_Witness ==
    /\ Done
    /\ requested = << 1, 2, 3 >>
    /\ Len(fetched) = 3
    /\ returned = PageOf(1, 2) \o PageOf(2, 2) \o PageOf(3, 1)

----------------------------------------------------------------------------
(* Claims about the category resolution *)

\* C10: when the listing get_categories returned has a category whose name
\* contains the query, case-insensitively, the query resolves to the id of the
\* first such category and that id is paginated, whatever the id.
C10_ResolvesFirstMatch ==
    [][ ( /\ pc = "resolve"
          /\ result # None
          /\ "categories" \in result.keys
          /\ \E i \in 1..Len(result.categories) :
                IsSubstring(Lower(category_name), Lower(result.categories[i].name)) )
        => \E i \in 1..Len(result.categories) :
              /\ IsSubstring(Lower(category_name), Lower(result.categories[i].name))
              /\ \A j \in 1..(i - 1) :
                    ~IsSubstring(Lower(category_name),
                                 Lower(result.categories[j].name))
              /\ category_id' = result.categories[i].id
              /\ pc' = "loop" ]_vars

----------------------------------------------------------------------------
(* More claims about _make_request *)

Sleeps(log) == {i \in 1..Len(log) : log[i].ev = "sleep"}

\* C20: every backoff wait is followed by another call: a request whose
\* max_retries calls all failed has returned None after exactly
\* max_retries - 1 waits, the last event of its trace being no wait.
C20_NoWaitAfterLastAttempt ==
    ( /\ RequestReturned
      /\ max_retries > 0
      /\ Len(Calls(req_log)) = max_retries
      /\ Succeeded(req_log) = {} )
    => /\ result = None
       /\ Cardinality(Sleeps(req_log)) = max_retries - 1
       /\ req_log[Len(req_log)].ev # "sleep"

----------------------------------------------------------------------------
(* Claims about extract_product_details *)

\* C12: extract_product_details raises on no raw record, whatever its fields
\* hold, and returns a dict that has every field.
C12_NormalizerTotal ==
    /\ pc # "extract_raised"
    /\ pc = "extracted" => DOMAIN norm_out = DetailFields

\* C13: discount_percent is 0 when mrp <= 0, and otherwise the two-decimal
\* value nearest to ((mrp - price) / mrp) * 100: in hundredths of a percent,
\* the integer d with |d * mrp - 10000 * (mrp - price)| <= mrp / 2.
C13_DiscountPercent ==
    pc \in {"image", "extracted"} =>
        LET price == norm_out.price.v
            mrp == norm_out.mrp.v
            d == norm_out.discount_percent.v
            err == d * mrp - 10000 * (mrp - price)
        IN  (price >= 0 /\ mrp >= 0) =>
                /\ mrp <= 0 => d = 0
                /\ mrp > 0 => (2 * err <= mrp /\ -2 * err <= mrp)

C13_Witness ==
    /\ pc = "extracted"
    /\ norm_out.price = PyNum(1)
    /\ norm_out.mrp = PyNum(3)
    /\ norm_out.discount_percent = PyNum(6667)

\* C19: with image capture on, a download that fails (status other than 200,
\* request error, write error) does not stop extract_product_details: it
\* returns the complete record, and no exception of the call stems from the
\* download.
C19_ImageFailureAbsorbed ==
    /\ norm_img \in (ImageOutcomes \ {"saved"}) =>
          /\ pc = "extracted"
          /\ norm_exc = "none"
          /\ norm_out = Details(norm_raw)
          /\ DOMAIN norm_out = DetailFields
    /\ pc = "extract_raised" => norm_img = "not_attempted"

C19_Witness ==
    /\ pc = "extracted"
    /\ download_images
    /\ norm_img = "write_error"
    /\ norm_out.image_url = PyStr(2)
    /\ norm_out.price = PyNum(2)

----------------------------------------------------------------------------
(* Claims about analyze_products and print_analysis *)

CountKeys == {"total_products", "available_products", "unavailable_products",
              "price_ranges"}

\* C14: on the empty collection analyze_products returns a report that has
\* every count, each zero, and print_analysis does not raise.
C14_EmptyReportZero ==
    an_products = << >> =>
        /\ pc # "print_raised"
        /\ pc = "analyzed" =>
              /\ CountKeys \subseteq an_report.keys
              /\ an_report.total_products = 0
              /\ an_report.available_products = 0
              /\ an_report.unavailable_products = 0
              /\ an_report.price_ranges = NoRanges

PriceAt(i) == an_products[i].price.v

\* C15: the four buckets partition the non-negative prices: each product is
\* counted in exactly one, the counts sum to total_products, and 50, 100 and
\* 200 belong to the upper bucket.
C15_BucketsPartition ==
    (pc = "analyzed" /\ an_products # << >>
        /\ \A i \in 1..Len(an_products) : PriceAt(i) >= 0) =>
        LET n == Len(an_products)
            b == an_report.price_ranges
        IN  /\ b.under_50 + b.r_50_100 + b.r_100_200 + b.over_200 = n
            /\ an_report.total_products = n
            /\ b.under_50 = Cardinality({i \in 1..n : PriceAt(i) <= 49})
            /\ b.r_50_100 = Cardinality({i \in 1..n : PriceAt(i) \in 50..99})
            /\ b.r_100_200 = Cardinality({i \in 1..n : PriceAt(i) \in 100..199})
            /\ b.over_200 = Cardinality({i \in 1..n : PriceAt(i) > 199})

C15_Witness ==
    /\ pc = "analyzed"
    /\ Len(an_products) = 4
    /\ PriceAt(1) = 10 /\ PriceAt(2) = 60 /\ PriceAt(3) = 150 /\ PriceAt(4) = 250
    /\ an_report.price_ranges =
          [under_50 |-> 1, r_50_100 |-> 1, r_100_200 |-> 1, over_200 |-> 1]

\* C18: the brand set and the category set hold exactly the distinct brands /
\* categories of the products other than the sentinel 'N/A', which is in
\* neither.
C18_SetsExcludeSentinel ==
    (pc = "analyzed" /\ an_products # << >>) =>
        LET idx == 1..Len(an_products)
        IN  /\ an_report.brands =
                  {an_products[i].brand : i \in idx} \ {StrNA}
            /\ an_report.categories =
                  {an_products[i].category : i \in idx} \ {StrNA}
            /\ StrNA \notin an_report.brands
            /\ StrNA \notin an_report.categories

C18_Witness ==
    /\ pc = "analyzed"
    /\ Len(an_products) = 3
    /\ an_products[1].brand = StrNA
    /\ an_products[2].brand = PyStr(1)
    /\ an_products[3].brand = PyStr(1)
    /\ an_products[1].category = StrNA
    /\ an_report.brands = {PyStr(1)}
    /\ an_report.categories = {PyStr(3)}

----------------------------------------------------------------------------
(* Claims about a run over a category list *)

\* no category of the listing matches the queried name
NoMatch ==
    \A i \in 1..Len(svc_categories) :
        ~NameMatches(category_name, svc_categories[i].name)

Unresolved == pc = "done" /\ (NoMatch \/ category_id = NoneId)

\* C11: when no listed category matches the name, or the listing could not
\* be fetched, the scrape returns the empty result without raising and
\* without a product-page request, and the run records the empty result for
\* the category and goes back to its loop for the remaining categories.
C11_UnmatchedIsEmpty ==
    /\ [](Unresolved => returned = << >> /\ requested = << >>)
    /\ [](NoMatch => pc \notin {"loop", "page_ret", "raised"})
    /\ [][Unresolved /\ run_idx > 0 =>
            \/ pc' = "interrupted"
            \/ /\ pc' = "run_loop"
               /\ run_idx' = run_idx
               /\ category_name \in results'.keys
               /\ results'.at[category_name] = << >>]_vars

C11_Witness ==
    /\ pc = "run_done"
    /\ svc_categories = DefaultListing
    /\ run_categories = << << "F", "F" >>, << "f" >> >>
    /\ run_result.returned
    /\ run_result.value.at[<< "F", "F" >>] = << >>
    /\ Len(run_result.value.at[<< "f" >>]) = 2

\* C16: an interrupt between two page iterations of a category's scrape
\* leaves the records accumulated so far returned as that category's result.
C16_PartialResultKept ==
    [][(pc = "loop" /\ pc' = "interrupted") => returned' = all_products]_vars

\* C17: the run takes the categories in list order and returns a mapping
\* with one result set per entry of the list, each the result of that
\* entry's own scrape, whatever the other categories' outcomes.
C17_OneResultPerEntry ==
    /\ pc # "run_raised"
    /\ Len(scrapes) <= Len(run_categories)
    /\ \A i \in 1..Len(scrapes) : scrapes[i].name = run_categories[i]
    /\ pc = "run_done" =>
          /\ run_result.returned
          /\ Len(scrapes) = Len(run_categories)
          /\ Cardinality(run_result.value.keys) = Len(run_categories)
          /\ \A i \in 1..Len(run_categories) :
                run_result.value.at[run_categories[i]] = scrapes[i].products

----------------------------------------------------------------------------
(* Further claims about analyze_products *)

\* C23: for a non-empty collection the report has available_products +
\* unavailable_products = total_products = the number of input products.
C23_AvailabilitySplitsTotal ==
    (pc = "analyzed" /\ an_products # << >>) =>
        /\ an_report.total_products = Len(an_products)
        /\ an_report.available_products + an_report.unavailable_products
              = an_report.total_products

C23_Witness ==
    /\ pc = "analyzed"
    /\ Len(an_products) = 3
    /\ an_products[1].availability = PyBool(TRUE)
    /\ an_products[2].availability = PyBool(FALSE)
    /\ an_products[3].availability = PyBool(TRUE)
    /\ an_report.available_products = 2
    /\ an_report.unavailable_products = 1

----------------------------------------------------------------------------
(* Further claims about scrape_category *)

LastOf(seq) == seq[Len(seq)]

\* the id the service gave the raw record rec
IdOf(rec) == PyStr(10 * rec.pg + rec.ix)

\* C22: scrape_category returns one normalized product per raw record of the
\* Paginator's result, in the same order, and calls persistence exactly once
\* when that result is non-empty and never when it is empty. A call of
\* persistence whose file write fails is a call.
C22_OneProductPerRecord ==
    [][(pc = "done" /\ run_idx > 0) =>
          \/ pc' = "interrupted"
          \/ pc' = "run_raised" /\ norm_exc' = "OSError" /\ returned # << >>
          \/ /\ pc' = "run_loop"
             /\ Len(scrapes') = Len(scrapes) + 1
             /\ LET products == LastOf(scrapes').products
                IN  /\ Len(products) = Len(returned)
                    /\ \A i \in 1..Len(returned) :
                          products[i].product_id = IdOf(returned[i])
                    /\ IF returned = << >>
                       THEN saved' = saved
                       ELSE saved' = Append(saved, [name |-> category_name,
                                                    products |-> products])]_vars

----------------------------------------------------------------------------
(* Further claims about the retry budget *)

\* C21: every request of a scrape, the category listing and each page, starts
\* at attempt 0 and makes at most max_retries calls whatever happened to the
\* requests before it, so a scrape with max_pages = m > 0 makes at most
\* max_retries * (m + 1) transport calls.
C21_BudgetPerRequest ==
    /\ [][(pc # "request" /\ pc' = "request") =>
             attempt' = 0 /\ req_log' = << >>]_vars
    /\ [](pc = "request" =>
             Len(Calls(req_log)) = attempt /\ attempt <= max_retries)
    /\ [](max_pages > 0 => calls_made <= max_retries * (max_pages + 1))

C21_Witness ==
    /\ pc = "done"
    /\ max_retries = 3
    /\ max_pages = 2
    /\ calls_made = 9
    /\ Len(returned) = 1
    /\ Len(requested) = 2

----------------------------------------------------------------------------
(* Claims about FridaScraper.run *)

\* the stages of a complete run, in order
StageOrder ==
    << "connect", IF attach_mode THEN "attach" ELSE "spawn", "inject",
       "capture", "save" >>

Failed == {i \in 1..Len(stages_run) : ~stages_run[i].ok}

\* C24: run calls its stages in the order connect, attach or spawn, inject,
\* capture, save; a failure of connect, attach/spawn or inject makes it
\* return False at once, with no later stage, no capture and no file written;
\* it returns True only after capture and save have run.
C24_StagesInOrder ==
    /\ Len(stages_run) <= Len(StageOrder)
    /\ \A i \in 1..Len(stages_run) : stages_run[i].name = StageOrder[i]
    /\ \A i \in Failed :
          /\ i = Len(stages_run)
          /\ i <= 3
          /\ pc = "returned"
          /\ run_value = "False"
          /\ files_written = << >>
          /\ captured_data = << >>
    /\ run_value = "False" => Failed # {}
    /\ run_value = "True" =>
          /\ pc = "returned"
          /\ Len(stages_run) = Len(StageOrder)
          /\ Failed = {}

C24_Witness ==
    /\ pc = "returned"
    /\ run_value = "True"
    /\ ~attach_mode
    /\ Len(stages_run) = 5
    /\ files_written = << "captured_data", "products" >>

====
